---- MODULE Spec2Model ----
(***************************************************************************)
(* Constraint-system model of the halo2 Merkle-tree gadgets:               *)
(* Hash1Chip / Hash2Chip (placeholder hashes), MerkleTreeV1Chip (hash gate *)
(* inlined in the layer region) and MerkleTreeV2Chip (hash delegated to    *)
(* Hash2Chip), together with the circuits that assemble them, the          *)
(* SimpleFloorPlanner row allocation they rely on and the MockProver       *)
(* satisfiability check their tests run.                                   *)
(***************************************************************************)
EXTENDS Integers, Sequences, FiniteSets, TLC

\* ------------------------------------------------------------------------
\* Bounds of the model
\* ------------------------------------------------------------------------
\* The circuits are generic over a prime field (the tests use pasta::Fp).
\* The model runs them over a small odd prime field, chosen by index so that
\* every choice is a prime large enough to hold the values of the tests.
FieldPrimes == <<131, 137, 139, 149>>

PrimeIndex == 1

MaxVal == 0

MaxBit == 2

MaxLayers == 2

MaxDelta == 2

MaxForge == 2

P == FieldPrimes[PrimeIndex]

Field == 0 .. (P - 1)

\* Value::unknown()
Unknown == -1

\* leaf / sibling / hash-input values the witnesses are drawn from
Vals == (0 .. MaxVal) \cup {P - 1}

\* direction "bits" the witnesses are drawn from: the two booleans and the
\* value MaxBit, which is not boolean
BitVals == {0, 1, MaxBit}

Deltas == 0 .. MaxDelta

ForgeVals == 0 .. MaxForge

\* ------------------------------------------------------------------------
\* Field arithmetic (F: FieldExt) and Value<F> arithmetic
\* ------------------------------------------------------------------------
FAdd(x, y) == (x + y) % P

FSub(x, y) == (x - y + P) % P

FMul(x, y) == (x * y) % P

\* faulty variant: the left operand is counted twice
VAddLeftTwice(x, y) ==
    IF x = Unknown \/ y = Unknown THEN Unknown ELSE FAdd(FAdd(x, x), y)

\* Value<F> + Value<F>: unknown if either side is unknown
VAdd(x, y) == IF x = Unknown \/ y = Unknown THEN Unknown ELSE FAdd(x, y)

\* Value<F> * Value::known(c)
VMul(x, y) == IF x = Unknown \/ y = Unknown THEN Unknown ELSE FMul(x, y)

\* ------------------------------------------------------------------------
\* Gate polynomials registered by configure
\* ------------------------------------------------------------------------
\* faulty variant: the sign slip c * (1 + c)
BoolGateSignSlip(c) == FMul(c, FAdd(1, c))

\* "bool": c * (1 - c)
BoolGate(c) == FMul(c, FSub(1, c))

\* faulty variant: the factor 2 is left out
SwapGateNoDouble(a, b, c, l, r) ==
    FSub(FSub(FMul(c, FSub(b, a)), FSub(l, a)), FSub(b, r))

\* "swap": c * 2 * (b - a) - (l - a) - (b - r)
SwapGate(a, b, c, l, r) ==
    FSub(FSub(FMul(FMul(c, 2 % P), FSub(b, a)), FSub(l, a)), FSub(b, r))

\* The Poseidon permutation of halo2_gadgets is not part of the repository;
\* it is stood in for by a fixed function of the three state words that is
\* not symmetric in them and is built from the x^5 S-box.
Pow5(x) == FMul(FMul(FMul(x, x), FMul(x, x)), x)

\* initial capacity element of the sponge (a constant of the domain)
Capacity == 2

PoseidonPermute(s0, s1, s2) ==
    FAdd(Pow5(FAdd(s0, s2)), FMul(3 % P, Pow5(FAdd(s1, 1))))

\* primitives Hash::init().hash([x, y]): the words are added to a zero rate
\* part, permuted with the capacity element, and state word 0 is squeezed
PoseidonHash(x, y) ==
    IF x = Unknown \/ y = Unknown THEN Unknown
    ELSE PoseidonPermute(x, y, Capacity)

\* Hash1Chip "hash": 2 * a - b
Hash1Gate(a, b) == FSub(FMul(2 % P, a), b)

\* Hash2Chip / MerkleTreeV1Chip "hash": a + b - c
Hash2Gate(a, b, c) == FSub(FAdd(a, b), c)

\* ------------------------------------------------------------------------
\* Columns of the constraint system
\* ------------------------------------------------------------------------
AdviceColumns == {"a", "b", "c"}

SelectorColumns == {"bool_selector", "swap_selector", "hash_selector"}

AllColumns == AdviceColumns \cup SelectorColumns

\* PoseidonChip::configure: WIDTH = 3 state columns of its own (the inputs
\* are the state columns)
PoseidonColumns == {"state0", "state1", "state2"}

\* PoseidonChip::<OrchardNullifier, 3, 2, 2>: WIDTH, RATE and L
PoseidonWidth == 3

PoseidonRate == 2

PoseidonLength == 2

\* rows of the "permute state" region (the rounds are not modelled one by one)
PermuteRows == 2

\* the columns a layouter keeps a next-free row for
LayouterColumns == AllColumns \cup PoseidonColumns

NoCell == <<"none", 0>>

CircuitKinds ==
    {"Hash1", "Hash2", "MerkleTreeV1", "MerkleTreeV2", "MerkleTreeV3", "Poseidon"}

MerkleKinds == {"MerkleTreeV1", "MerkleTreeV2"}

\* ------------------------------------------------------------------------
\* configure: what a Circuit::configure call leaves in the ConstraintSystem
\* ------------------------------------------------------------------------
\* ConstraintSystem::default(): no column, no selector, no gate
NewConstraintSystem ==
    [advice |-> <<>>, instance |-> 0, selectors |-> <<>>, gates |-> <<>>]

\* meta.advice_column()
AdviceColumn(cs, name) == [cs EXCEPT !.advice = Append(@, name)]

\* meta.instance_column()
InstanceColumn(cs) == [cs EXCEPT !.instance = @ + 1]

\* the handle meta.selector() is about to return: the next index
NextSelector(cs) == Len(cs.selectors) + 1

\* meta.selector(): one more selector, named after the variable it is bound to
MetaSelector(cs, name) == [cs EXCEPT !.selectors = Append(@, name)]

\* meta.create_gate(name, ..): the polynomial is multiplied by the queried
\* selector sel; queries are the (advice column, rotation) pairs it reads
CreateGate(cs, name, sel, queries) ==
    [cs EXCEPT !.gates = Append(@, [name |-> name, selector |-> sel,
                                    queries |-> queries])]

\* Hash1Chip::configure
Hash1Configure(cs) ==
    CreateGate(MetaSelector(cs, "hash_selector"), "hash", NextSelector(cs),
               {<<"a", 0>>, <<"b", 0>>})

\* faulty variant: the hash gate is multiplied by the last selector there is
Hash2ConfigureShared(cs) ==
    CreateGate(cs, "hash", Len(cs.selectors),
               {<<"a", 0>>, <<"b", 0>>, <<"c", 0>>})

\* Hash2Chip::configure
Hash2Configure(cs) ==
    CreateGate(MetaSelector(cs, "hash_selector"), "hash", NextSelector(cs),
               {<<"a", 0>>, <<"b", 0>>, <<"c", 0>>})

\* the "bool" and "swap" gates of MerkleTreeV1Chip / MerkleTreeV2Chip
\* ::configure, created after the chip's selectors
BoolSwapGates(cs, bool_sel, swap_sel) ==
    CreateGate(CreateGate(cs, "bool", bool_sel, {<<"c", 0>>}),
               "swap", swap_sel,
               {<<"a", 0>>, <<"b", 0>>, <<"c", 0>>, <<"a", 1>>, <<"b", 1>>})

\* MerkleTreeV1Chip::configure: three selectors, then the three gates
MerkleV1Configure(cs) ==
    LET cs1 == MetaSelector(cs, "bool_selector")
        cs2 == MetaSelector(cs1, "swap_selector")
        cs3 == MetaSelector(cs2, "hash_selector")
    IN  CreateGate(BoolSwapGates(cs3, NextSelector(cs), NextSelector(cs1)),
                   "hash", NextSelector(cs2),
                   {<<"a", 0>>, <<"b", 0>>, <<"c", 0>>})

\* MerkleTreeV2Chip::configure: two selectors, the bool and swap gates, then
\* Hash2Chip::configure on the same columns
MerkleV2Configure(cs) ==
    LET cs1 == MetaSelector(cs, "bool_selector")
        cs2 == MetaSelector(cs1, "swap_selector")
    IN  Hash2Configure(BoolSwapGates(cs2, NextSelector(cs), NextSelector(cs1)))

\* PoseidonChip::configure: WIDTH state columns and an instance column of
\* its own, then Pow5Chip::configure with its selectors and gates (the round
\* gates read the state words)
PoseidonConfigure(cs) ==
    LET cs0 == InstanceColumn(AdviceColumn(AdviceColumn(AdviceColumn(cs,
                  "state0"), "state1"), "state2"))
        cs1 == MetaSelector(cs0, "s_full")
        cs2 == MetaSelector(cs1, "s_pad_and_add")
    IN  CreateGate(
           CreateGate(cs2, "full round", NextSelector(cs0),
                      {<<"state0", 0>>, <<"state1", 0>>, <<"state2", 0>>,
                       <<"state0", 1>>}),
           "pad-and-add", NextSelector(cs1),
           {<<"state0", 0>>, <<"state1", 0>>, <<"state2", 0>>,
            <<"state0", 1>>, <<"state1", 1>>,
            <<"state0", 2>>, <<"state1", 2>>, <<"state2", 2>>})

\* MerkleTreeV3Chip::configure: two selectors, the bool and swap gates, then
\* PoseidonChip::configure
MerkleV3Configure(cs) ==
    LET cs1 == MetaSelector(cs, "bool_selector")
        cs2 == MetaSelector(cs1, "swap_selector")
    IN  PoseidonConfigure(BoolSwapGates(cs2, NextSelector(cs), NextSelector(cs1)))

\* the advice columns a circuit's configure creates before the chip's
ThreeAdvice(cs) ==
    AdviceColumn(AdviceColumn(AdviceColumn(cs, "a"), "b"), "c")

\* Circuit::configure of each circuit
Configure(kind) ==
    CASE kind = "Hash1" ->
            Hash1Configure(InstanceColumn(
               AdviceColumn(AdviceColumn(NewConstraintSystem, "a"), "b")))
      [] kind = "Hash2" ->
            Hash2Configure(InstanceColumn(ThreeAdvice(NewConstraintSystem)))
      [] kind = "MerkleTreeV1" ->
            MerkleV1Configure(InstanceColumn(ThreeAdvice(NewConstraintSystem)))
      [] kind = "MerkleTreeV2" ->
            MerkleV2Configure(InstanceColumn(ThreeAdvice(NewConstraintSystem)))
      [] kind = "MerkleTreeV3" ->
            MerkleV3Configure(InstanceColumn(ThreeAdvice(NewConstraintSystem)))
      [] OTHER -> PoseidonConfigure(NewConstraintSystem)

VARIABLES
    circuit,     \* the circuit struct: kind and witness fields
    instance,    \* the public input vector handed to MockProver::run
    cells,       \* witness table: assigned advice cells, <<column,row>> -> value
    selectors,   \* enabled selectors, set of <<selector,row>>
    copies,      \* copy constraints between advice cells, set of <<cell,cell>>
    publics,     \* instance bindings, set of <<cell, instance row>>
    columns,     \* SimpleFloorPlanner: next free row of every column
    regions,     \* regions assigned so far, in order
    writes,      \* log of the cells assigned, in order
    pc,          \* position in synthesize
    i,           \* layer index of the Merkle loop
    leaf_cell,   \* the loaded leaf cell (V2) / cell a (hash circuits)
    digest,      \* leaf_or_digest / digest: the running digest cell
    lr,          \* (left, right) cells returned by the layer region
    verdict,     \* result of MockProver::verify
    forged,      \* the prover replaced a witness closure's values
    run,         \* 1: first synthesis, 2: second synthesis
    mode,        \* how the second circuit was obtained
    prev,        \* what the first synthesis produced
    config,      \* the ConstraintSystem as Circuit::configure left it
    errors       \* the chip operations that returned Err, by position

vars == <<circuit, instance, cells, selectors, copies, publics, columns,
          regions, writes, pc, i, leaf_cell, digest, lr, verdict, forged,
          run, mode, prev, config, errors>>

\* ------------------------------------------------------------------------
\* Helpers
\* ------------------------------------------------------------------------
RECURSIVE SumSeq(_)
SumSeq(s) == IF s = <<>> THEN 0 ELSE FAdd(s[1], SumSeq(Tail(s)))

SetMax(S) == CHOOSE x \in S : \A y \in S : y <= x

SeqsOfLen(S, n) == [1 .. n -> S]

IsAssigned(c) == c \in DOMAIN cells

\* value of an advice cell as the MockProver reads it (unassigned reads as 0)
CellVal(c) == IF c \in DOMAIN cells THEN cells[c] ELSE 0

\* AssignedCell::value()
ValueOf(c) == cells[c]

\* faulty variant: the destination is assigned one more than the source holds
CopyValueShifted(src) == VAdd(cells[src], 1)

\* AssignedCell::copy_advice: the destination is assigned the source's value
\* (and the two cells are linked, see CopyAdvice)
CopyValue(src) == ValueOf(src)

\* faulty variant: a region starts at the lowest free row of its columns
RegionStartLowest(cols) ==
    CHOOSE x \in {columns[c] : c \in cols} :
        \A y \in {columns[c] : c \in cols} : x <= y

\* SimpleFloorPlanner: a region starts at the first row that is free in every
\* column the region uses
RegionStart(cols) == SetMax({columns[c] : c \in cols})

AllocRegion(cols, nrows) ==
    [c \in LayouterColumns |->
        IF c \in cols THEN RegionStart(cols) + nrows ELSE columns[c]]

NewRegion(name, cols, nrows) ==
    [name |-> name, start |-> RegionStart(cols), rows |-> nrows, cols |-> cols]

\* region.assign_advice for several cells at once: upd maps cells to values
AssignAdvice(upd) == upd @@ cells

\* faulty variant: the value is assigned, the cells are not linked
CopyAdviceByValue(cell, src) == {}

\* AssignedCell::copy_advice: the new cell gets the value of src (assigned
\* with the region's other cells) and the copy constraint (cell, src)
CopyAdvice(cell, src) == {<<cell, src>>}

\* ------------------------------------------------------------------------
\* Circuits and the public inputs they are checked against
\* ------------------------------------------------------------------------
MkHash1(a) ==
    [kind |-> "Hash1", a |-> a, b |-> 0, leaf |-> 0,
     elements |-> <<>>, indices |-> <<>>]

MkHash2(a, b) ==
    [kind |-> "Hash2", a |-> a, b |-> b, leaf |-> 0,
     elements |-> <<>>, indices |-> <<>>]

\* PoseidonCircuit { message: [a, b] }
MkPoseidon(a, b) ==
    [kind |-> "Poseidon", a |-> a, b |-> b, leaf |-> 0,
     elements |-> <<>>, indices |-> <<>>]

MkMerkle(kind, leaf, elements, indices) ==
    [kind |-> kind, a |-> 0, b |-> 0, leaf |-> leaf,
     elements |-> elements, indices |-> indices]

\* Circuit::without_witnesses: Self::default()
WithoutWitnesses(c) ==
    [kind |-> c.kind, a |-> Unknown, b |-> Unknown, leaf |-> Unknown,
     elements |-> <<>>, indices |-> <<>>]

\* the root of a path under the permutation hash, computed outside the
\* circuit: each layer hashes (digest, sibling), exchanged when the bit is
\* not zero
RECURSIVE FoldPoseidon(_, _, _)
FoldPoseidon(v, sib, bits) ==
    IF sib = <<>> THEN v
    ELSE FoldPoseidon(IF bits[1] = 0 THEN PoseidonHash(v, sib[1])
                                     ELSE PoseidonHash(sib[1], v),
                      Tail(sib), Tail(bits))

\* the digest the tests compute outside the circuit
TestDigest(c) ==
    CASE c.kind = "Hash1" -> FMul(2 % P, c.a)
      [] c.kind = "Hash2" -> FAdd(c.a, c.b)
      [] c.kind = "Poseidon" -> PoseidonHash(c.a, c.b)
      [] c.kind = "MerkleTreeV3" -> FoldPoseidon(c.leaf, c.elements, c.indices)
      [] OTHER -> FAdd(c.leaf, SumSeq(c.elements))

\* the public input vectors a circuit is checked against
PublicInputs(c) ==
    CASE c.kind \in {"Hash1", "Hash2", "Poseidon"} ->
            {<<FAdd(TestDigest(c), d)>> : d \in Deltas} \cup {<<v>> : v \in Vals}
      [] c.kind = "MerkleTreeV1" ->
            {<<FAdd(TestDigest(c), d)>> : d \in Deltas}
      [] c.kind = "MerkleTreeV3" ->
            {<<c.leaf, FAdd(TestDigest(c), d)>> : d \in 0 .. 1}
      [] OTHER ->
            {<<c.leaf, FAdd(TestDigest(c), dr)>> : dr \in Deltas}
               \cup {<<FAdd(c.leaf, 1), TestDigest(c)>>}

MerkleCircuits ==
    UNION {{MkMerkle(k, v, s, b) :
                k \in MerkleKinds, v \in Vals,
                s \in SeqsOfLen(Vals, n), b \in SeqsOfLen(BitVals, n)} :
           n \in 0 .. MaxLayers}

\* paths for the MerkleTreeV3 chip, which no circuit of the repository
\* drives: it is driven by the call sequence of MerkleTreeV2Circuit
MerkleV3Circuits ==
    UNION {{MkMerkle("MerkleTreeV3", v, s, b) :
                v \in {3}, s \in SeqsOfLen({3, 5}, n), b \in SeqsOfLen({0, 1}, n)} :
           n \in 1 .. 2}

HashCircuits ==
    {MkHash1(x) : x \in Vals \cup {2}}
        \cup {MkHash2(x, y) : x \in Vals \cup {2}, y \in Vals \cup {7}}
        \cup {MkPoseidon(x, y) : x \in Vals, y \in Vals}

\* the witnesses and public inputs of the repository's tests
TestRuns ==
    { <<MkHash1(2), <<4>>>>,
      <<MkHash1(2), <<5>>>>,
      <<MkHash2(2, 7), <<9>>>>,
      <<MkPoseidon(99, 99), <<PoseidonHash(99, 99)>>>>,
      <<MkMerkle("MerkleTreeV1", 99, <<1, 1>>, <<0, 0>>), <<101>>>>,
      <<MkMerkle("MerkleTreeV2", 99, <<1, 5, 6, 9, 9>>, <<0, 0, 0, 0, 0>>),
        <<99, 129>>>> }

FirstPc(kind) ==
    CASE kind = "Hash1" -> "load_a"
      [] kind = "Hash2" -> "load_a"
      [] kind = "MerkleTreeV1" -> "assign"
      [] kind = "Poseidon" -> "load_inputs"
      [] OTHER -> "load_leaf"

\* faulty variant: the layouter of the earlier synthesis is used again
NewLayouterReused(old) ==
    [c \in LayouterColumns |-> IF c \in DOMAIN old THEN old[c] ELSE 0]

\* every synthesis gets a new layouter: no column has a row in use, whatever
\* an earlier layouter (old) had allocated
NewLayouter(old) == [c \in LayouterColumns |-> 0]

NoRun ==
    [circuit |-> MkHash1(0), cells |-> <<>>, selectors |-> {}, copies |-> {},
     publics |-> {}, regions |-> <<>>, pc |-> "none", verdict |-> "none"]

\* state of a freshly started MockProver::run(k, &circuit, vec![instance])
Start(c, inst) ==
    /\ circuit = c
    /\ instance = inst
    /\ cells = <<>>
    /\ selectors = {}
    /\ copies = {}
    /\ publics = {}
    /\ columns = NewLayouter(<<>>)
    /\ regions = <<>>
    /\ writes = <<>>
    /\ pc = FirstPc(c.kind)
    /\ i = 0
    /\ leaf_cell = NoCell
    /\ digest = NoCell
    /\ lr = <<NoCell, NoCell>>
    /\ verdict = "none"
    /\ forged = FALSE
    /\ config = Configure(c.kind)
    /\ errors = {}

Init ==
    /\ run = 1
    /\ mode = "first"
    /\ prev = NoRun
    /\ \/ \E c \in MerkleCircuits \cup HashCircuits \cup MerkleV3Circuits :
            \E inst \in PublicInputs(c) : Start(c, inst)
       \/ \E t \in TestRuns : Start(t[1], t[2])

\* ------------------------------------------------------------------------
\* Chip operations
\* ------------------------------------------------------------------------
\* {Hash1,Hash2,MerkleTreeV2}Chip::load_private: a one-cell region in advice[0]
LoadPrivate ==
    /\ pc \in {"load_a", "load_b", "load_leaf"}
    /\ LET start == RegionStart({"a"})
           cell == <<"a", start>>
           input == CASE pc = "load_a" -> circuit.a
                      [] pc = "load_b" -> circuit.b
                      [] OTHER -> circuit.leaf
       IN  /\ cells' = AssignAdvice(cell :> input)
           /\ writes' = Append(writes, cell)
           /\ regions' = Append(regions, NewRegion("load private", {"a"}, 1))
           /\ columns' = AllocRegion({"a"}, 1)
           /\ IF pc = "load_b"
                 THEN /\ lr' = <<leaf_cell, cell>>
                      /\ UNCHANGED leaf_cell
                 ELSE /\ leaf_cell' = cell
                      /\ UNCHANGED lr
           /\ pc' = CASE pc = "load_leaf" -> "expose_leaf"
                      [] pc = "load_a" /\ circuit.kind = "Hash1" -> "hash1"
                      [] pc = "load_a" /\ circuit.kind = "Hash2" -> "load_b"
                      [] OTHER -> "hash2"
    /\ UNCHANGED <<errors, config, circuit, instance, selectors, copies, publics, i, digest,
                   verdict, forged, run, mode, prev>>

\* faulty variant: the two rows are exchanged, the leaf goes to row 1
ExposeRowSwapped == IF pc = "expose_leaf" THEN 1 ELSE 0

\* the row argument of the expose_public call synthesize is at: the root of
\* MerkleTreeV2Circuit goes to row 1, everything else to row 0
ExposeRow ==
    IF pc = "expose_root" /\ circuit.kind \in {"MerkleTreeV2", "MerkleTreeV3"}
       THEN 1 ELSE 0

\* faulty variant: a cell of the first layer (row 1 of column c) is exposed
ExposeCellBit == IF pc = "expose_leaf" THEN leaf_cell ELSE <<"c", 1>>

\* the cell argument of the expose_public call synthesize is at: the loaded
\* leaf cell first (V2), the returned digest cell last
ExposeCell == IF pc = "expose_leaf" THEN leaf_cell ELSE digest

\* expose_public: layouter.constrain_instance(cell, instance, row)
ExposePublic ==
    /\ pc \in {"expose_leaf", "expose_root", "expose"}
    /\ LET cell == ExposeCell
           row == ExposeRow
       IN  publics' = publics \cup {<<cell, row>>}
    /\ pc' = IF pc = "expose_leaf" THEN "merkle_prove" ELSE "done"
    /\ UNCHANGED <<errors, config, circuit, instance, cells, selectors, copies, columns,
                   regions, writes, i, leaf_cell, digest, lr, verdict, forged,
                   run, mode, prev>>

\* faulty variant: the output closure adds 2 instead of doubling
Hash1OutputAddsTwo(x) == VAdd(x, 2 % P)

\* Hash1Chip::hash1
Hash1Output(x) == VMul(x, 2 % P)

Hash1 ==
    /\ pc = "hash1"
    /\ LET cols == {"a", "b", "hash_selector"}
           start == RegionStart(cols)
           in_cell == <<"a", start>>
           out_cell == <<"b", start>>
       IN  /\ cells' = AssignAdvice(
                 (in_cell :> CopyValue(leaf_cell))
                    @@ (out_cell :> Hash1Output(ValueOf(leaf_cell))))
           /\ writes' = writes \o <<in_cell, out_cell>>
           /\ copies' = copies \cup CopyAdvice(in_cell, leaf_cell)
           /\ selectors' = selectors \cup {<<"hash_selector", start>>}
           /\ regions' = Append(regions, NewRegion("hash1", cols, 1))
           /\ columns' = AllocRegion(cols, 1)
           /\ digest' = out_cell
    /\ pc' = "expose"
    /\ UNCHANGED <<errors, config, circuit, instance, publics, i, leaf_cell, lr, verdict,
                   forged, run, mode, prev>>

\* faulty variant: the output closure multiplies the inputs
Hash2OutputMultiplies(x, y) == VMul(x, y)

\* Hash2Chip::hash2, called by Hash2Circuit::synthesize and by
\* MerkleTreeV2Chip::merkle_prove_layer
Hash2Output(x, y) == VAdd(x, y)

\* faulty variant: constructing the chip registers its gate once more
Hash2ConstructConfigures(cfg) == Hash2Configure(cfg)

\* Hash2Chip::construct(config.clone()): the chip keeps a copy of the
\* configuration; the configuration it was copied from stays as it was
Hash2Construct(cfg) == cfg

\* Hash2Chip::hash2 on the cells lr: the region "hash2"
Hash2 ==
    /\ pc = "hash2"
    /\ config' = Hash2Construct(config)
    /\ LET cols == {"a", "b", "c", "hash_selector"}
           start == RegionStart(cols)
           a_cell == <<"a", start>>
           b_cell == <<"b", start>>
           out_cell == <<"c", start>>
       IN  /\ cells' = AssignAdvice(
                 (a_cell :> CopyValue(lr[1])) @@ (b_cell :> CopyValue(lr[2]))
                    @@ (out_cell :> Hash2Output(ValueOf(lr[1]), ValueOf(lr[2]))))
           /\ writes' = writes \o <<a_cell, b_cell, out_cell>>
           /\ copies' = copies \cup CopyAdvice(a_cell, lr[1])
                              \cup CopyAdvice(b_cell, lr[2])
           /\ selectors' = selectors \cup {<<"hash_selector", start>>}
           /\ regions' = Append(regions, NewRegion("hash2", cols, 1))
           /\ columns' = AllocRegion(cols, 1)
           /\ digest' = out_cell
    /\ IF circuit.kind = "Hash2"
          THEN /\ pc' = "expose"
               /\ UNCHANGED i
          ELSE \* back in merkle_prove: for i in 1..layers
               /\ i' = i + 1
               /\ pc' = IF i + 1 < Len(circuit.elements)
                           THEN "layer" ELSE "expose_root"
    /\ UNCHANGED <<errors, circuit, instance, publics, leaf_cell, lr, verdict, forged,
                   run, mode, prev>>

\* ------------------------------------------------------------------------
\* PoseidonChip and the PoseidonCircuit that drives it
\* ------------------------------------------------------------------------
\* PoseidonChip::load_private_inputs: word k into inputs[k], row 0 of a region
LoadPrivateInputs ==
    /\ pc = "load_inputs"
    /\ LET cols == {"state0", "state1"}
           start == RegionStart(cols)
           m0 == <<"state0", start>>
           m1 == <<"state1", start>>
       IN  /\ cells' = AssignAdvice((m0 :> circuit.a) @@ (m1 :> circuit.b))
           /\ writes' = writes \o <<m0, m1>>
           /\ regions' = Append(regions,
                                NewRegion("load private inputs", cols, 1))
           /\ columns' = AllocRegion(cols, 1)
           /\ lr' = <<m0, m1>>
    /\ pc' = "load_words"
    /\ UNCHANGED <<errors, config, circuit, instance, selectors, copies, publics, i, leaf_cell,
                   digest, verdict, forged, run, mode, prev>>

\* faulty variant: the digest is taken from the region the words were copied to
HasherOutputInWordRegion(permute_start) == <<"state0", regions[2].start>>

\* hasher.hash: the digest is state word 0 of the last row of the permutation
HasherOutput(permute_start) == <<"state0", permute_start + PermuteRows - 1>>

\* faulty variant: the two words go to the state columns in reverse order
InputColumnReversed(k) == <<"state1", "state0">>[k + 1]

\* config.inputs[k]: the state column word k is copied to
InputColumn(k) == <<"state0", "state1">>[k + 1]

\* PoseidonChip::hash, first part: the region "load words" copies word k of
\* the caller into inputs[k], row 0; no selector is enabled in this region
PoseidonLoadWords ==
    /\ pc = "load_words"
    /\ LET cols == {"state0", "state1"}
           start == RegionStart(cols)
           w0 == <<InputColumn(0), start>>
           w1 == <<InputColumn(1), start>>
       IN  /\ cells' = AssignAdvice((w0 :> ValueOf(lr[1])) @@ (w1 :> ValueOf(lr[2])))
           /\ writes' = writes \o <<w0, w1>>
           /\ copies' = copies \cup CopyAdvice(w0, lr[1]) \cup CopyAdvice(w1, lr[2])
           /\ regions' = Append(regions, NewRegion("load words", cols, 1))
           /\ columns' = AllocRegion(cols, 1)
    /\ pc' = "hasher_init"
    /\ UNCHANGED <<errors, config, circuit, instance, selectors, publics, i, leaf_cell, digest,
                   lr, verdict, forged, run, mode, prev>>

\* PoseidonChip::hash, Hash::init: the sponge's initial state in a region
HasherInit ==
    /\ pc = "hasher_init"
    /\ LET cols == PoseidonColumns
           start == RegionStart(cols)
       IN  /\ cells' = AssignAdvice((<<"state0", start>> :> 0)
                                      @@ (<<"state1", start>> :> 0)
                                      @@ (<<"state2", start>> :> Capacity))
           /\ writes' = writes \o <<<<"state0", start>>, <<"state1", start>>,
                                    <<"state2", start>>>>
           /\ regions' = Append(regions, NewRegion("initial state", cols, 1))
           /\ columns' = AllocRegion(cols, 1)
    /\ pc' = "add_input"
    /\ UNCHANGED <<errors, config, circuit, instance, selectors, copies, publics, i, leaf_cell,
                   digest, lr, verdict, forged, run, mode, prev>>

\* PoseidonChip::hash, hasher.hash: the words are absorbed; row 0 copies the
\* initial state, row 1 copies the word cells of "load words", row 2 is the sum
HasherAddInput ==
    /\ pc = "add_input"
    /\ LET start == RegionStart(PoseidonColumns)
           init == regions[Len(regions)].start
           words == regions[Len(regions) - 1].start
           w0 == ValueOf(<<"state0", words>>)
           w1 == ValueOf(<<"state1", words>>)
       IN  /\ cells' = AssignAdvice(
                 (<<"state0", start>> :> ValueOf(<<"state0", init>>))
                    @@ (<<"state1", start>> :> ValueOf(<<"state1", init>>))
                    @@ (<<"state2", start>> :> ValueOf(<<"state2", init>>))
                    @@ (<<"state0", start + 1>> :> w0)
                    @@ (<<"state1", start + 1>> :> w1)
                    @@ (<<"state0", start + 2>> :> VAdd(ValueOf(<<"state0", init>>), w0))
                    @@ (<<"state1", start + 2>> :> VAdd(ValueOf(<<"state1", init>>), w1))
                    @@ (<<"state2", start + 2>> :> ValueOf(<<"state2", init>>)))
           /\ writes' = writes \o
                 <<<<"state0", start>>, <<"state1", start>>, <<"state2", start>>,
                   <<"state0", start + 1>>, <<"state1", start + 1>>,
                   <<"state0", start + 2>>, <<"state1", start + 2>>,
                   <<"state2", start + 2>>>>
           /\ copies' = copies
                 \cup CopyAdvice(<<"state0", start>>, <<"state0", init>>)
                 \cup CopyAdvice(<<"state1", start>>, <<"state1", init>>)
                 \cup CopyAdvice(<<"state2", start>>, <<"state2", init>>)
                 \cup CopyAdvice(<<"state0", start + 1>>, <<"state0", words>>)
                 \cup CopyAdvice(<<"state1", start + 1>>, <<"state1", words>>)
           /\ selectors' = selectors \cup {<<"s_pad_and_add", start>>}
           /\ regions' = Append(regions, NewRegion("add input", PoseidonColumns, 3))
           /\ columns' = AllocRegion(PoseidonColumns, 3)
    /\ pc' = "permute"
    /\ UNCHANGED <<errors, config, circuit, instance, publics, i, leaf_cell, digest, lr,
                   verdict, forged, run, mode, prev>>

\* PoseidonChip::hash, hasher.hash: the permutation region; its first row
\* copies the absorbed state, its last row holds the permuted state, of which
\* word 0 is returned as the digest
HasherPermute ==
    /\ pc = "permute"
    /\ LET start == RegionStart(PoseidonColumns)
           absorbed == regions[Len(regions)].start + 2
           in(c) == ValueOf(<<c, absorbed>>)
           out_cell == <<"state0", start + PermuteRows - 1>>
           out == IF Unknown \in {in("state0"), in("state1"), in("state2")}
                     THEN Unknown
                     ELSE PoseidonPermute(in("state0"), in("state1"), in("state2"))
       IN  /\ cells' = AssignAdvice(
                 (<<"state0", start>> :> in("state0"))
                    @@ (<<"state1", start>> :> in("state1"))
                    @@ (<<"state2", start>> :> in("state2"))
                    @@ (out_cell :> out))
           /\ writes' = writes \o <<<<"state0", start>>, <<"state1", start>>,
                                    <<"state2", start>>, out_cell>>
           /\ copies' = copies
                 \cup CopyAdvice(<<"state0", start>>, <<"state0", absorbed>>)
                 \cup CopyAdvice(<<"state1", start>>, <<"state1", absorbed>>)
                 \cup CopyAdvice(<<"state2", start>>, <<"state2", absorbed>>)
           /\ selectors' = selectors \cup {<<"s_full", start>>}
           /\ regions' = Append(regions,
                                NewRegion("permute state", PoseidonColumns, PermuteRows))
           /\ columns' = AllocRegion(PoseidonColumns, PermuteRows)
           /\ digest' = HasherOutput(start)
    /\ IF circuit.kind = "Poseidon"
          THEN /\ pc' = "expose"
               /\ UNCHANGED i
          ELSE \* back in MerkleTreeV3Chip::merkle_prove: for i in 1..layers
               /\ i' = i + 1
               /\ pc' = IF i + 1 < Len(circuit.elements)
                           THEN "layer" ELSE "expose_root"
    /\ UNCHANGED <<errors, config, circuit, instance, publics, leaf_cell, lr, verdict,
                   forged, run, mode, prev>>

\* faulty variant: the path is validated before it is synthesized
IndexPanicsOrBadBit ==
    \/ Len(circuit.elements) = 0
    \/ Len(circuit.indices) = 0
    \/ \E k \in DOMAIN circuit.indices : circuit.indices[k] \notin {0, 1, Unknown}

\* elements[0] / indices[0] (V1: path_elements[0] / path_indices[0]) panic on
\* an empty vector; nothing else about the path is looked at before synthesis
IndexPanics == Len(circuit.elements) = 0 \/ Len(circuit.indices) = 0

\* MerkleTreeV2Chip::merkle_prove, up to the first layer: elements[0] and
\* indices[0] are indexed without a length check
MerkleProve ==
    /\ pc = "merkle_prove"
    /\ IF IndexPanics
          THEN /\ pc' = "panic"
               /\ UNCHANGED <<i, digest>>
          ELSE /\ pc' = "layer"
               /\ i' = 0
               /\ digest' = leaf_cell
    /\ UNCHANGED <<errors, config, circuit, instance, cells, selectors, copies, publics,
                   columns, regions, writes, leaf_cell, lr, verdict, forged,
                   run, mode, prev>>

\* faulty variant: the branches of the swap closure exchanged
SwapV2Inverted(d, e, x) ==
    IF x = Unknown THEN <<d, e>>
    ELSE IF x = 0 THEN <<e, d>> ELSE <<d, e>>

\* MerkleTreeV2Chip::merkle_prove_layer, row 1: the witness closure
\* (l, r) = if x == 0 { (l, r) } else { (r, l) }, run only for a known index
SwapV2(d, e, x) ==
    IF x = Unknown THEN <<d, e>>
    ELSE IF x = 0 THEN <<d, e>> ELSE <<e, d>>

\* faulty variant: the swap selector is enabled only when the bit asks for a swap
LayerSelectorsByBit(start) ==
    IF circuit.indices[i + 1] = 0
       THEN {<<"bool_selector", start>>}
       ELSE {<<"bool_selector", start>>, <<"swap_selector", start>>}

\* MerkleTreeV2Chip::merkle_prove_layer: bool_selector.enable(region, 0) and
\* swap_selector.enable(region, 0), whatever the values are
LayerSelectors(start) ==
    {<<"bool_selector", start>>, <<"swap_selector", start>>}

\* faulty variant: every layer is given the first path entry
LayerElementFirst(k) == circuit.elements[1]

\* merkle_prove: the element argument of layer k, elements[k]
LayerElement(k) == circuit.elements[k + 1]

\* faulty variant: every layer is given the first direction bit
LayerIndexFirst(k) == circuit.indices[1]

\* merkle_prove: the index argument of layer k, indices[k]
LayerIndex(k) == circuit.indices[k + 1]

\* faulty variant: left is written one row further down, past the region
LeftCellPastRegion(start) == <<"a", start + 2>>

\* merkle_prove_layer: left is assigned at advice[0], offset 1
LeftCell(start) == <<"a", start + 1>>

\* faulty variant: right is assigned at advice[2], the column no swap query reads
RightCellInDigestColumn(start) == <<"c", start + 1>>

\* merkle_prove_layer: right is assigned at advice[1], offset 1
RightCell(start) == <<"b", start + 1>>

\* MerkleTreeV2Chip::merkle_prove_layer, the swap region
MerkleProveLayer ==
    /\ pc = "layer"
    /\ LET cols == {"a", "b", "c", "bool_selector", "swap_selector"}
           start == RegionStart(cols)
           element == LayerElement(i)
           index == LayerIndex(i)
           sw == SwapV2(ValueOf(digest), element, index)
           left == LeftCell(start)
           right == RightCell(start)
       IN  /\ cells' = AssignAdvice(
                 (<<"a", start>> :> CopyValue(digest))
                    @@ (<<"b", start>> :> element)
                    @@ (<<"c", start>> :> index)
                    @@ (left :> sw[1]) @@ (right :> sw[2]))
           /\ writes' = writes \o <<<<"a", start>>, <<"b", start>>,
                                    <<"c", start>>, left, right>>
           /\ copies' = copies \cup CopyAdvice(<<"a", start>>, digest)
           /\ selectors' = selectors \cup LayerSelectors(start)
           /\ regions' = Append(regions, NewRegion("merkle_prove_leaf", cols, 2))
           /\ columns' = AllocRegion(cols, 2)
           /\ lr' = <<left, right>>
    /\ pc' = IF circuit.kind = "MerkleTreeV3" THEN "load_words" ELSE "hash2"
    /\ UNCHANGED <<errors, config, circuit, instance, publics, i, leaf_cell, digest, verdict,
                   forged, run, mode, prev>>

\* faulty variant: the two inputs are never exchanged
SwapV1Never(new, path, bit) == <<new, path>>

\* MerkleTreeV1Chip::assign, row 1: if bit != 0 { (input_l, input_r) = (path, new) }
SwapV1(new, path, bit) ==
    IF bit = Unknown THEN <<new, path>>
    ELSE IF bit # 0 THEN <<path, new>> ELSE <<new, path>>

\* faulty variant: the hash selector is enabled on the layer's first row
SelectorsV1FirstRow(start) ==
    {<<"bool_selector", start>>, <<"swap_selector", start>>,
     <<"hash_selector", start>>}

\* MerkleTreeV1Chip::assign: bool_selector and swap_selector enabled at
\* offset 0, hash_selector at offset 1
SelectorsV1(start) ==
    {<<"bool_selector", start>>, <<"swap_selector", start>>,
     <<"hash_selector", start + 1>>}

\* faulty variant: the digest cell is given the left input only
DigestV1LeftOnly(l, r) == l

\* MerkleTreeV1Chip::assign: the digest cell's value, input_l + input_r
DigestV1(l, r) == VAdd(l, r)

\* MerkleTreeV1Circuit::synthesize: one chip.assign call (layer i), with the
\* argument path_elements[0] / path_indices[0] indexed without a length check
AssignV1 ==
    /\ pc = "assign"
    /\ IF i = 0 /\ IndexPanics
          THEN /\ pc' = "panic"
               /\ UNCHANGED <<cells, writes, copies, selectors, regions,
                              columns, digest, i>>
          ELSE LET cols == AllColumns
                   start == RegionStart(cols)
                   path == circuit.elements[i + 1]
                   bit == circuit.indices[i + 1]
                   new == IF i = 0 THEN circuit.leaf ELSE ValueOf(digest)
                   sw == SwapV1(new, path, bit)
                   digest_cell == <<"c", start + 1>>
               IN  /\ cells' = AssignAdvice(
                         (<<"a", start>> :> new)
                            @@ (<<"b", start>> :> path)
                            @@ (<<"c", start>> :> bit)
                            @@ (<<"a", start + 1>> :> sw[1])
                            @@ (<<"b", start + 1>> :> sw[2])
                            @@ (digest_cell :> DigestV1(sw[1], sw[2])))
                   /\ writes' = writes \o <<<<"a", start>>, <<"b", start>>,
                                            <<"c", start>>, <<"a", start + 1>>,
                                            <<"b", start + 1>>, digest_cell>>
                   /\ copies' = IF i = 0 THEN copies
                                ELSE copies \cup CopyAdvice(<<"a", start>>, digest)
                   /\ selectors' = selectors \cup SelectorsV1(start)
                   /\ regions' = Append(regions, NewRegion("layer", cols, 2))
                   /\ columns' = AllocRegion(cols, 2)
                   /\ digest' = digest_cell
                   /\ i' = i + 1
                   /\ pc' = IF i + 1 < Len(circuit.elements)
                               THEN "assign" ELSE "expose_root"
    /\ UNCHANGED <<errors, config, circuit, instance, publics, leaf_cell, lr, verdict, forged,
                   run, mode, prev>>

\* ------------------------------------------------------------------------
\* MockProver::verify
\* ------------------------------------------------------------------------
GateValue(s, row) ==
    CASE s = "bool_selector" -> BoolGate(CellVal(<<"c", row>>))
      [] s = "swap_selector" ->
            SwapGate(CellVal(<<"a", row>>), CellVal(<<"b", row>>),
                     CellVal(<<"c", row>>),
                     CellVal(<<"a", row + 1>>), CellVal(<<"b", row + 1>>))
      [] s = "s_pad_and_add" ->
            IF \A c \in PoseidonColumns :
                  CellVal(<<c, row + 2>>) = FAdd(CellVal(<<c, row>>), CellVal(<<c, row + 1>>))
               THEN 0 ELSE 1
      [] s = "s_full" ->
            FSub(CellVal(<<"state0", row + PermuteRows - 1>>),
                 PoseidonPermute(CellVal(<<"state0", row>>), CellVal(<<"state1", row>>),
                                 CellVal(<<"state2", row>>)))
      [] OTHER ->
            IF circuit.kind = "Hash1"
               THEN Hash1Gate(CellVal(<<"a", row>>), CellVal(<<"b", row>>))
               ELSE Hash2Gate(CellVal(<<"a", row>>), CellVal(<<"b", row>>),
                              CellVal(<<"c", row>>))

GatesOK == \A e \in selectors : GateValue(e[1], e[2]) = 0

CopiesOK == \A e \in copies : CellVal(e[1]) = CellVal(e[2])

InstanceOK ==
    \A e \in publics :
        CellVal(e[1]) = (IF e[2] < Len(instance) THEN instance[e[2] + 1] ELSE 0)

Satisfied == GatesOK /\ CopiesOK /\ InstanceOK

\* A witness-erased circuit is synthesized for its shape only (key generation
\* ignores the unknown values); there is no assignment to verify.
MockVerify ==
    /\ pc = "done"
    /\ mode # "erased"
    /\ verdict' = IF Satisfied THEN "satisfied" ELSE "failed"
    /\ pc' = "verified"
    /\ UNCHANGED <<errors, config, circuit, instance, cells, selectors, copies, publics,
                   columns, regions, writes, i, leaf_cell, digest, lr, forged,
                   run, mode, prev>>

Synthesize ==
    \/ LoadPrivate
    \/ ExposePublic
    \/ Hash1
    \/ Hash2
    \/ LoadPrivateInputs
    \/ PoseidonLoadWords
    \/ HasherInit
    \/ HasherAddInput
    \/ HasherPermute
    \/ MerkleProve
    \/ MerkleProveLayer
    \/ AssignV1

Next == Synthesize \/ MockVerify

\* honest synthesis of one circuit, then MockProver::verify
Spec == Init /\ [][Next]_vars

\* ------------------------------------------------------------------------
\* A prover that does not run the witness closures of the layer region
\* ------------------------------------------------------------------------
\* The values of the (left, right) cells come from closures evaluated by the
\* prover; the constraint system only sees the values.  A dishonest prover
\* puts any values there and computes the rest of the witness from them.
ForgeV2 ==
    /\ circuit.kind = "MerkleTreeV2"
    /\ pc = "hash2"
    /\ ~forged
    /\ \E l \in ForgeVals, r \in ForgeVals :
          cells' = [cells EXCEPT ![lr[1]] = l, ![lr[2]] = r]
    /\ forged' = TRUE
    /\ UNCHANGED <<errors, config, circuit, instance, selectors, copies, publics, columns,
                   regions, writes, pc, i, leaf_cell, digest, lr, verdict,
                   run, mode, prev>>

ForgeV1 ==
    /\ circuit.kind = "MerkleTreeV1"
    /\ pc \in {"assign", "expose_root"}
    /\ digest # NoCell
    /\ ~forged
    /\ \E l \in ForgeVals, r \in ForgeVals :
          cells' = [cells EXCEPT ![<<"a", digest[2]>>] = l,
                                 ![<<"b", digest[2]>>] = r,
                                 ![digest] = FAdd(l, r)]
    /\ forged' = TRUE
    /\ UNCHANGED <<errors, config, circuit, instance, selectors, copies, publics, columns,
                   regions, writes, pc, i, leaf_cell, digest, lr, verdict,
                   run, mode, prev>>

NextForge == Synthesize \/ MockVerify \/ ForgeV2 \/ ForgeV1

SpecForge == Init /\ [][NextForge]_vars

\* ------------------------------------------------------------------------
\* Chip operations that return Err
\* ------------------------------------------------------------------------
\* the positions of synthesize at which a chip operation is called
OperationPcs ==
    {"load_a", "load_b", "load_leaf", "expose_leaf", "expose_root", "expose",
     "hash1", "hash2", "layer", "assign", "load_inputs", "load_words",
     "hasher_init", "add_input", "permute"}

\* MerkleTreeV2Circuit::synthesize calls expose_public for the leaf as a
\* statement, without `?`: its Result is dropped; every other call ends in
\* `?` or is the returned expression
ResultDropped == circuit.kind = "MerkleTreeV2" /\ pc = "expose_leaf"

\* The layouter makes the operation synthesize is at return Err (not enough
\* rows, a column outside the permutation, ..).  With `?` synthesize returns
\* the error; where the Result is dropped it goes on with the next call.
OperationFails ==
    /\ pc \in OperationPcs
    /\ errors' = errors \cup {pc}
    /\ pc' = IF ResultDropped THEN "merkle_prove" ELSE "error"
    /\ UNCHANGED <<config, circuit, instance, cells, selectors, copies, publics,
                   columns, regions, writes, i, leaf_cell, digest, lr, verdict,
                   forged, run, mode, prev>>

NextFail == Synthesize \/ MockVerify \/ OperationFails

SpecFail == Init /\ [][NextFail]_vars

\* ------------------------------------------------------------------------
\* A second synthesis, to compare two runs
\* ------------------------------------------------------------------------
\* another witness of the same shape: every value replaced by a different one
OtherWitness(c) ==
    [kind |-> c.kind,
     a |-> FAdd(c.a, 1), b |-> FAdd(c.b, 1), leaf |-> FAdd(c.leaf, 1),
     elements |-> [k \in DOMAIN c.elements |-> FAdd(c.elements[k], 1)],
     indices |-> [k \in DOMAIN c.indices |-> (c.indices[k] + 1) % (MaxBit + 1)]]

SecondCircuit(m) ==
    CASE m = "same" -> circuit
      [] m = "erased" -> WithoutWitnesses(circuit)
      [] OTHER -> OtherWitness(circuit)

ThisRun ==
    [circuit |-> circuit, cells |-> cells, selectors |-> selectors,
     copies |-> copies, publics |-> publics, regions |-> regions,
     pc |-> pc, verdict |-> verdict]

Rerun ==
    /\ run = 1
    /\ pc \in {"verified", "panic"}
    /\ \E m \in {"same", "erased", "other"} :
          /\ mode' = m
          /\ circuit' = SecondCircuit(m)
          /\ pc' = FirstPc(circuit.kind)
    /\ run' = 2
    /\ prev' = ThisRun
    /\ cells' = <<>>
    /\ selectors' = {}
    /\ copies' = {}
    /\ publics' = {}
    /\ columns' = NewLayouter(columns)
    /\ regions' = <<>>
    /\ writes' = <<>>
    /\ i' = 0
    /\ leaf_cell' = NoCell
    /\ digest' = NoCell
    /\ lr' = <<NoCell, NoCell>>
    /\ verdict' = "none"
    /\ config' = Configure(circuit.kind)
    /\ errors' = {}
    /\ UNCHANGED <<instance, forged>>

\* the runs compared start from public inputs at most one off the honest ones
InitRerun ==
    /\ Init
    /\ \E t \in TestRuns \cup
                {<<circuit, <<FAdd(TestDigest(circuit), d)>>>> : d \in 0 .. 1}
                \cup {<<circuit, <<circuit.leaf, FAdd(TestDigest(circuit), d)>>>> :
                         d \in 0 .. 1} :
          instance = t[2] /\ circuit = t[1]

NextRerun == Synthesize \/ MockVerify \/ Rerun

SpecRerun == InitRerun /\ [][NextRerun]_vars

\* ------------------------------------------------------------------------
\* Properties
\* ------------------------------------------------------------------------
NumLayers == Len(circuit.elements)

BitsBoolean == \A k \in DOMAIN circuit.indices : circuit.indices[k] \in {0, 1}

Finished == pc \in {"verified", "panic"}

\* fold of the specification: d_0 = v, d_k = H(left, right) with (left, right)
\* = (d_(k-1), s_k) for bit 0 and (s_k, d_(k-1)) for bit 1, H the additive hash
RECURSIVE Fold(_, _, _)
Fold(v, s, b) ==
    IF s = <<>> THEN v
    ELSE Fold(IF b[1] = 0 THEN FAdd(v, s[1]) ELSE FAdd(s[1], v),
              Tail(s), Tail(b))

\* The digest the chip assigns after the layers of s and b, starting from v:
\* each layer swaps (digest, sibling) by the bit and hashes left and right,
\* V1 with its inlined gate's assignment, V2 through Hash2Chip::hash2.
RECURSIVE ChipRoot(_, _, _, _)
ChipRoot(kind, v, s, b) ==
    IF s = <<>> THEN v
    ELSE LET sw == IF kind = "MerkleTreeV1" THEN SwapV1(v, s[1], b[1])
                   ELSE SwapV2(v, s[1], b[1])
             d == IF kind = "MerkleTreeV1" THEN DigestV1(sw[1], sw[2])
                  ELSE Hash2Output(sw[1], sw[2])
         IN  ChipRoot(kind, d, Tail(s), Tail(b))


SwapRows == {e[2] : e \in {x \in selectors : x[1] = "swap_selector"}}

BoolRows == {e[2] : e \in {x \in selectors : x[1] = "bool_selector"}}

SwapGateAt(row) == GateValue("swap_selector", row)

\* C1: on every row where the swap selector is on, a zero swap polynomial
\* forces (l, r) = (a, b) when bit = 0 and (l, r) = (b, a) when bit = 1.
C1_SwapGateForces ==
    \A row \in SwapRows :
        LET a == CellVal(<<"a", row>>)
            b == CellVal(<<"b", row>>)
            bit == CellVal(<<"c", row>>)
            l == CellVal(<<"a", row + 1>>)
            r == CellVal(<<"b", row + 1>>)
        IN  /\ (SwapGateAt(row) = 0 /\ bit = 0) => (l = a /\ r = b)
            /\ (SwapGateAt(row) = 0 /\ bit = 1) => (l = b /\ r = a)

\* C2: no satisfying assignment of the MerkleTreeV2 circuit with n >= 1 layers
\* has a public root other than the fold of its public leaf, siblings and bits.
C2_NoForgedRoot ==
    (/\ circuit.kind = "MerkleTreeV2"
     /\ NumLayers >= 1
     /\ pc = "verified"
     /\ verdict = "satisfied")
        => instance[2] = Fold(instance[1], circuit.elements, circuit.indices)

\* C3: an honestly synthesized MerkleTreeV2 circuit with n >= 1 layers and
\* boolean bits, checked against [leaf, fold(leaf, siblings, bits)], is
\* satisfied: every gate is zero, every copy and instance binding holds.
C3_RoundTrip ==
    (/\ circuit.kind = "MerkleTreeV2"
     /\ NumLayers >= 1
     /\ BitsBoolean
     /\ pc \in {"done", "verified"}
     /\ instance = <<circuit.leaf,
                     Fold(circuit.leaf, circuit.elements, circuit.indices)>>)
        => /\ GatesOK /\ CopiesOK /\ InstanceOK
           /\ pc = "verified" => verdict = "satisfied"

C3_Witness ==
    /\ circuit.kind = "MerkleTreeV2"
    /\ NumLayers = 2
    /\ circuit.indices = <<1, 0>>
    /\ circuit.elements[1] # circuit.leaf
    /\ instance = <<circuit.leaf,
                    Fold(circuit.leaf, circuit.elements, circuit.indices)>>
    /\ pc = "verified"
    /\ verdict = "satisfied"

\* C4: in the Merkle circuits a direction bit outside {0,1} at any layer makes
\* the check fail whatever the other values are, and a bit in {0,1} never makes
\* the boolean gate fail.
C4_BoolGateRejects ==
    (circuit.kind \in MerkleKinds /\ pc = "verified")
        => /\ ~BitsBoolean => verdict = "failed"
           /\ \A row \in BoolRows :
                 /\ CellVal(<<"c", row>>) \in {0, 1}
                       => GateValue("bool_selector", row) = 0
                 /\ CellVal(<<"c", row>>) \notin {0, 1}
                       => GateValue("bool_selector", row) # 0
           /\ Cardinality(BoolRows) = NumLayers

\* only the boolean gate rejects this witness: sibling = leaf makes the swap
\* gate zero for any bit, and the public inputs are the honest ones
C4_Witness ==
    /\ circuit.kind = "MerkleTreeV2"
    /\ NumLayers = 1
    /\ circuit.indices[1] = 2
    /\ circuit.elements[1] = circuit.leaf
    /\ instance = <<circuit.leaf, FAdd(circuit.leaf, circuit.elements[1])>>
    /\ pc = "verified"
    /\ verdict = "failed"
    /\ \A row \in SwapRows : SwapGateAt(row) = 0
    /\ CopiesOK /\ InstanceOK

\* C5: with an empty path the Merkle verifier completes and the root it
\* returns is the leaf.
C5_ZeroLengthPath ==
    (circuit.kind \in MerkleKinds /\ NumLayers = 0 /\ mode = "first")
        => /\ pc # "panic"
           /\ pc \in {"done", "verified"} => CellVal(digest) = circuit.leaf

Layout(r) ==
    [regions |-> r.regions, selectors |-> r.selectors, copies |-> r.copies,
     publics |-> r.publics]

\* C6: synthesize on without_witnesses() completes with Ok and produces the
\* layout (regions, selectors, copies, instance bindings) of the original.
C6_ErasedSynthesis ==
    (run = 2 /\ mode = "erased" /\ prev.pc = "verified")
        => /\ pc # "panic"
           /\ pc = "done" => Layout(ThisRun) = Layout(prev)

\* C7: two witnesses of the same circuit (same chip, same number of path
\* entries) give the same regions, selectors, copy constraints and instance
\* bindings, and assign the same set of cells; only the values differ.
C7_LayoutIndependence ==
    (run = 2 /\ mode = "other" /\ Finished)
        => /\ Layout(ThisRun) = Layout(prev)
           /\ DOMAIN cells = DOMAIN prev.cells
           /\ pc = prev.pc

C7_Witness ==
    /\ run = 2 /\ mode = "other" /\ pc = "verified"
    /\ circuit.kind = "MerkleTreeV2"
    /\ NumLayers = 2
    /\ prev.circuit.indices = <<0, 1>>
    /\ cells # prev.cells

C9_Hash1Iff ==
    (circuit.kind = "Hash1" /\ pc = "verified")
        => /\ verdict = "satisfied" <=> instance[1] = (2 * circuit.a) % P
           /\ (circuit.a = 2 /\ instance = <<4>>) => verdict = "satisfied"
           /\ (circuit.a = 2 /\ instance = <<5>>) => verdict = "failed"

C9_Witness ==
    /\ circuit.kind = "Hash1" /\ pc = "verified"
    /\ circuit.a = 2 /\ instance = <<5>> /\ verdict = "failed"

C11_MerkleV1Iff ==
    (circuit.kind = "MerkleTreeV1" /\ pc = "verified" /\ NumLayers >= 1
        /\ BitsBoolean)
       => /\ CellVal(digest) = FAdd(circuit.leaf, SumSeq(circuit.elements))
          /\ digest = <<"c", 2 * NumLayers - 1>>
          /\ (verdict = "satisfied") <=> (instance = <<CellVal(digest)>>)
          /\ (circuit.leaf = 99 /\ circuit.elements = <<1, 1>>)
                => /\ CellVal(digest) = 101
                   /\ (verdict = "satisfied") <=> (instance = <<101>>)

C11_Witness ==
    /\ circuit.kind = "MerkleTreeV1" /\ pc = "verified"
    /\ circuit.leaf = 99 /\ circuit.elements = <<1, 1>>
    /\ circuit.indices = <<0, 0>>
    /\ instance = <<101>> /\ verdict = "satisfied"

\* C12: MerkleTreeV2Circuit binds the leaf cell to instance row 0 and the
\* final digest cell to instance row 1.  The circuit is satisfied only if
\* public[0] is the leaf cell's value and public[1] the final digest's value;
\* with an otherwise satisfying witness, changing either public value alone
\* makes verification fail.
C12_PublicBinding ==
    (circuit.kind = "MerkleTreeV2" /\ pc \in {"done", "verified"})
       => /\ publics = {<<leaf_cell, 0>>, <<digest, 1>>}
          /\ leaf_cell = <<"a", 0>> /\ CellVal(leaf_cell) = circuit.leaf
          /\ pc = "verified" =>
                /\ verdict = "satisfied" =>
                      /\ instance[1] = CellVal(leaf_cell)
                      /\ instance[2] = CellVal(digest)
                /\ (BitsBoolean /\ verdict = "failed") <=>
                      (BitsBoolean /\ instance #
                                        <<CellVal(leaf_cell), CellVal(digest)>>)

C12_Witness ==
    /\ circuit.kind = "MerkleTreeV2" /\ pc = "verified" /\ BitsBoolean
    /\ instance[1] # CellVal(leaf_cell) /\ instance[2] = CellVal(digest)
    /\ verdict = "failed"

\* the swap regions of the layers synthesized so far, and the hash regions
\* that follow them in MerkleTreeV2
IsLayerRegion(r) == r.name \in {"layer", "merkle_prove_leaf"}

IsHashRegion(r) == r.name = "hash2"

LayerRegions == SelectSeq(regions, IsLayerRegion)

HashRegions == SelectSeq(regions, IsHashRegion)

\* first-column first-row cell of layer k (k counted from 0)
LayerInput(k) == <<"a", LayerRegions[k + 1].start>>

\* the digest cell layer k returns: V1 writes it in its second row, V2 gets it
\* from the hash region that follows the swap region
LayerOutput(k) ==
    IF circuit.kind = "MerkleTreeV1"
       THEN <<"c", LayerRegions[k + 1].start + 1>>
       ELSE <<"c", HashRegions[k + 1].start>>

\* C13: the output cell of layer k is linked by a copy constraint to the
\* first-column, first-row input cell of layer k+1 (k = 0 .. n-2), and the
\* input of layer 0 is the supplied leaf (V1: assigned from the leaf value,
\* V2: copied from the loaded leaf cell).
C13_DigestChain ==
    circuit.kind \in MerkleKinds =>
       /\ \A k \in 0 .. Len(LayerRegions) - 2 :
             /\ <<LayerInput(k + 1), LayerOutput(k)>> \in copies
             /\ CellVal(LayerInput(k + 1)) = CellVal(LayerOutput(k))
       /\ Len(LayerRegions) >= 1 =>
             /\ CellVal(LayerInput(0)) = circuit.leaf
             /\ circuit.kind = "MerkleTreeV2" =>
                   <<LayerInput(0), leaf_cell>> \in copies
       /\ pc \in {"done", "verified"} =>
             /\ Len(LayerRegions) = NumLayers
             /\ digest = LayerOutput(NumLayers - 1)

C13_Witness ==
    /\ circuit.kind = "MerkleTreeV2" /\ pc = "verified" /\ NumLayers = 2
    /\ <<LayerInput(1), LayerOutput(0)>> \in copies
    /\ LayerInput(1) # LayerInput(0)
    /\ verdict = "satisfied"

\* C15: in every layer of V1 and V2 the cells written to the second row are
\* (digest, sibling) when the layer's bit is 0 and (sibling, digest) when it
\* is 1, where digest, sibling and bit are the first-row cells.
C15_SwapAssignment ==
    circuit.kind \in MerkleKinds =>
       \A row \in SwapRows :
          LET d == CellVal(<<"a", row>>)
              sib == CellVal(<<"b", row>>)
              bit == CellVal(<<"c", row>>)
              l == CellVal(<<"a", row + 1>>)
              r == CellVal(<<"b", row + 1>>)
          IN  /\ IsAssigned(<<"a", row + 1>>) /\ IsAssigned(<<"b", row + 1>>)
              /\ bit = 0 => (l = d /\ r = sib)
              /\ bit = 1 => (l = sib /\ r = d)

C15_Witness ==
    /\ circuit.kind = "MerkleTreeV1" /\ pc = "verified"
    /\ \E row \in SwapRows :
          /\ CellVal(<<"c", row>>) = 1
          /\ CellVal(<<"a", row>>) # CellVal(<<"b", row>>)
          /\ CellVal(<<"a", row + 1>>) = CellVal(<<"b", row>>)
          /\ CellVal(<<"b", row + 1>>) = CellVal(<<"a", row>>)
    /\ \E row \in SwapRows :
          /\ CellVal(<<"c", row>>) = 0
          /\ CellVal(<<"a", row>>) # CellVal(<<"b", row>>)
          /\ CellVal(<<"a", row + 1>>) = CellVal(<<"a", row>>)

\* cells of the synthesized layers that hold path data: siblings and bits of
\* the first rows, left/right of the second rows, the inputs of the hash
\* regions, and every digest but the last
SiblingCells == {<<"b", row>> : row \in SwapRows}

BitCells == {<<"c", row>> : row \in SwapRows}

LeftRightCells ==
    {<<"a", row + 1>> : row \in SwapRows} \cup {<<"b", row + 1>> : row \in SwapRows}

HashInputCells ==
    UNION {{<<"a", HashRegions[k].start>>, <<"b", HashRegions[k].start>>} :
              k \in DOMAIN HashRegions}

InnerDigestCells ==
    {LayerOutput(k) : k \in 0 .. Len(LayerRegions) - 2}
       \cup {LayerInput(k) : k \in 1 .. Len(LayerRegions) - 1}

RegionsOverlap(r1, r2) ==
    /\ r1.cols \cap r2.cols # {}
    /\ r1.start < r2.start + r2.rows
    /\ r2.start < r1.start + r1.rows

NoDoubleWrite ==
    /\ Cardinality({writes[m] : m \in DOMAIN writes}) = Len(writes)
    /\ DOMAIN cells = {writes[m] : m \in DOMAIN writes}
    /\ \A m \in DOMAIN regions : \A n \in 1 .. m - 1 :
          ~RegionsOverlap(regions[m], regions[n])

CellsKept ==
    \A c \in DOMAIN cells : c \in DOMAIN cells' /\ cells'[c] = cells[c]

\* C17: during one synthesize pass no (column, row) cell is assigned more than
\* once, no two regions cover the same cell, and a cell keeps the value of its
\* first assignment in every later step.
C17_WriteOnce == []NoDoubleWrite /\ [][CellsKept]_vars

C17_Witness ==
    /\ circuit.kind = "MerkleTreeV2" /\ pc = "verified" /\ NumLayers = 2
    /\ Len(regions) = 5 /\ Len(writes) = 17
    /\ Cardinality(DOMAIN cells) = 17

\* the region names merkle_prove opens for k layers, after the leaf is loaded
RECURSIVE LayerNames(_)
LayerNames(k) ==
    IF k = 0 THEN <<"load private">>
    ELSE LayerNames(k - 1) \o <<"merkle_prove_leaf", "hash2">>

RegionNames == [m \in DOMAIN regions |-> regions[m].name]

IsPrefix(s, t) == Len(s) <= Len(t) /\ s = SubSeq(t, 1, Len(s))

\* C18: for a path of n >= 1 entries MerkleTreeV2Chip::merkle_prove performs
\* exactly n layers in the order 0 .. n-1; layer k reads elements[k] and
\* indices[k], opens one hash region after its swap region and before the
\* swap region of layer k+1, and the digest returned is layer n-1's output.
C18_LayerOrdering ==
    (circuit.kind = "MerkleTreeV2" /\ NumLayers >= 1
        /\ Len(circuit.indices) = NumLayers) =>
       /\ IsPrefix(RegionNames, LayerNames(NumLayers))
       /\ \A m \in 1 .. Len(regions) - 1 :
             regions[m].start < regions[m + 1].start
       /\ \A k \in 0 .. Len(LayerRegions) - 1 :
             /\ CellVal(<<"b", LayerRegions[k + 1].start>>) = circuit.elements[k + 1]
             /\ CellVal(<<"c", LayerRegions[k + 1].start>>) = circuit.indices[k + 1]
       /\ pc \in {"expose_root", "done", "verified"} =>
             /\ RegionNames = LayerNames(NumLayers)
             /\ Len(LayerRegions) = NumLayers /\ Len(HashRegions) = NumLayers
             /\ digest = <<"c", regions[Len(regions)].start>>
             /\ digest = LayerOutput(NumLayers - 1)

C18_Witness ==
    /\ circuit.kind = "MerkleTreeV2" /\ pc = "verified" /\ NumLayers = 2
    /\ circuit.elements[1] # circuit.elements[2]
    /\ circuit.indices[1] # circuit.indices[2]
    /\ RegionNames = LayerNames(2)

\* digest and sibling values the swap closure is applied to directly
SwapProbes == Vals \cup ForgeVals \cup {7, 99, P - 2}

\* C19: for field values a (running digest) and b (sibling) and bit in
\* {0, 1}, the (left, right) pair the layer assignment writes on the next row
\* makes the swap polynomial bit*2*(b-a) - (l-a) - (b-r) zero: on every swap
\* row a synthesis has written, and for the swap closures of V1 and V2
\* applied to the probe values (evaluated in the one-layer runs).
C19_AssignmentAgrees ==
    /\ circuit.kind \in MerkleKinds =>
          \A row \in SwapRows :
             CellVal(<<"c", row>>) \in {0, 1} => SwapGateAt(row) = 0
    /\ (pc = "verified" /\ NumLayers = 1) =>
          \A a, b \in SwapProbes : \A bit \in {0, 1} :
             /\ SwapGate(a, b, bit, SwapV2(a, b, bit)[1], SwapV2(a, b, bit)[2]) = 0
             /\ SwapGate(a, b, bit, SwapV1(a, b, bit)[1], SwapV1(a, b, bit)[2]) = 0

C19_Witness ==
    /\ circuit.kind = "MerkleTreeV2" /\ pc = "verified"
    /\ \E row \in SwapRows :
          /\ CellVal(<<"c", row>>) = 1
          /\ CellVal(<<"a", row>>) # CellVal(<<"b", row>>)
          /\ CellVal(<<"a", row + 1>>) = CellVal(<<"b", row>>)
          /\ SwapGateAt(row) = 0

\* C20: synthesize of a Merkle circuit with a path of n >= 1 entries never
\* fails, whatever the field values (a direction bit outside {0, 1}, a public
\* input that does not match); no verdict exists before verification, and
\* there a bad bit shows as a non-zero bool gate and a wrong public input as
\* a failed instance equality.
C20_NoPreValidation ==
    (circuit.kind \in MerkleKinds /\ NumLayers >= 1
        /\ Len(circuit.indices) = NumLayers) =>
       /\ pc # "panic"
       /\ pc # "verified" => verdict = "none"
       /\ pc = "verified" =>
             /\ Len(LayerRegions) = NumLayers
             /\ ~BitsBoolean =>
                   /\ verdict = "failed"
                   /\ \E row \in BoolRows : GateValue("bool_selector", row) # 0
             /\ (\E e \in publics : instance[e[2] + 1] # CellVal(e[1])) =>
                   (verdict = "failed" /\ ~InstanceOK)
             /\ verdict = "failed" => (~GatesOK \/ ~InstanceOK)
             /\ CopiesOK

C20_Witness ==
    /\ circuit.kind \in MerkleKinds /\ pc = "verified" /\ NumLayers = 2
    /\ circuit.indices[2] \notin {0, 1}
    /\ InstanceOK /\ ~GatesOK
    /\ verdict = "failed"

\* the region a hash gadget call copies its inputs into
IsGadgetRegion(r) == r.name \in {"hash1", "hash2", "load words"}

GadgetRegions == SelectSeq(regions, IsGadgetRegion)

\* the input columns of a gadget region and its output column
GadgetInputs(r) ==
    CASE r.name = "hash1" -> <<"a">>
      [] r.name = "hash2" -> <<"a", "b">>
      [] OTHER -> <<"state0", "state1">>

GadgetOutputColumn(r) ==
    CASE r.name = "hash1" -> "b"
      [] r.name = "hash2" -> "c"
      [] OTHER -> "state0"

RegionCells(r) == {c \in DOMAIN cells : c[2] \in r.start .. r.start + r.rows - 1
                                          /\ c[1] \in r.cols}

RegionSelectors(r) ==
    {e \in selectors : e[2] \in r.start .. r.start + r.rows - 1}

\* the cells the caller handed to the call that has just returned
CallerInputs ==
    IF circuit.kind = "Hash1" THEN <<leaf_cell>> ELSE <<lr[1], lr[2]>>

\* the gadget call has returned and nothing has been laid out after it
JustHashed ==
    /\ Len(regions) >= 1
    /\ regions[Len(regions)].name \in {"hash1", "hash2", "permute state"}

LastGadgetRegion == GadgetRegions[Len(GadgetRegions)]

\* every input of the call is a new cell of the gadget region, linked by a
\* copy constraint to the caller's cell
InputsCopied(r) ==
    /\ Len(CallerInputs) = Len(GadgetInputs(r))
    /\ \A k \in DOMAIN GadgetInputs(r) :
          LET cell == <<GadgetInputs(r)[k], r.start>>
          IN  /\ IsAssigned(cell)
              /\ cell # CallerInputs[k]
              /\ <<cell, CallerInputs[k]>> \in copies
              /\ CellVal(cell) = CellVal(CallerInputs[k])

FreshRegion(r) ==
    \A m \in DOMAIN regions :
        regions[m] # r => ~RegionsOverlap(regions[m], r)

\* C14 as stated: each call of hash1, hash2 and PoseidonChip::hash opens a
\* fresh region, copies every input into it under a copy constraint, enables
\* the gadget's hash selector on that row, and returns the output-column
\* cell of that region.
C14_GadgetContractAsStated ==
    JustHashed =>
       LET r == LastGadgetRegion
       IN  /\ FreshRegion(r)
           /\ InputsCopied(r)
           /\ RegionSelectors(r) # {}
           /\ digest = <<GadgetOutputColumn(r), r.start>>

\* C14, amended: every call opens a fresh region and copies every input
\* into it under a copy constraint.  hash1 and hash2 enable hash_selector
\* on that one row and return the output-column cell of that row.
\* PoseidonChip::hash enables no selector in its "load words" region; the
\* halo2_gadgets hasher then lays out three more regions (initial state, add
\* input, permute state), the word cells are copy-linked into the add-input
\* region, and the digest returned is state word 0 of the last row of the
\* permutation region.
C14_GadgetContract ==
    JustHashed =>
       LET r == LastGadgetRegion
           last == regions[Len(regions)]
       IN  /\ FreshRegion(r)
           /\ InputsCopied(r)
           /\ r.rows = 1
           /\ r.name \in {"hash1", "hash2"} =>
                 /\ r = last
                 /\ RegionSelectors(r) = {<<"hash_selector", r.start>>}
                 /\ digest = <<GadgetOutputColumn(r), r.start>>
                 /\ RegionCells(r) =
                       {<<GadgetInputs(r)[k], r.start>> : k \in DOMAIN GadgetInputs(r)}
                          \cup {digest}
           /\ r.name = "load words" =>
                 /\ RegionSelectors(r) = {}
                 /\ digest \notin RegionCells(r)
                 /\ [m \in 1 .. 3 |-> regions[Len(regions) - 3 + m].name]
                       = <<"initial state", "add input", "permute state">>
                 /\ regions[Len(regions) - 3] = r
                 /\ digest = <<"state0", last.start + last.rows - 1>>
                 /\ \A k \in 1 .. 2 :
                       <<<<GadgetInputs(r)[k], regions[Len(regions) - 1].start + 1>>,
                         <<GadgetInputs(r)[k], r.start>>>> \in copies
                 /\ CellVal(digest) = PoseidonHash(CellVal(CallerInputs[1]),
                                                   CellVal(CallerInputs[2]))

C14_Witness ==
    /\ circuit.kind = "Poseidon" /\ pc = "verified" /\ JustHashed
    /\ circuit.a = 99 /\ circuit.b = 99
    /\ instance = <<PoseidonHash(99, 99)>>
    /\ verdict = "satisfied"
    /\ digest[2] > LastGadgetRegion.start

\* the selectors enabled on a row
SelectorsOn(row) == {e[1] : e \in {x \in selectors : x[2] = row}}

\* C21: in the MerkleTreeV1 circuit layer k (k = 0 .. n-1) occupies rows 2k
\* and 2k+1; on row 2k the bool and swap selectors are on and the hash
\* selector is off, on row 2k+1 only the hash selector is on; row 2k holds
\* (leaf or copied digest, sibling, bit) and row 2k+1 holds (left, right,
\* digest).
C21_V1RowLayout ==
    circuit.kind = "MerkleTreeV1" =>
       /\ \A k \in 0 .. Len(LayerRegions) - 1 :
             LET r == LayerRegions[k + 1]
                 prior == IF k = 0 THEN circuit.leaf
                          ELSE CellVal(<<"c", 2 * k - 1>>)
                 sw == SwapV1(prior, circuit.elements[k + 1], circuit.indices[k + 1])
             IN  /\ r.start = 2 * k /\ r.rows = 2
                 /\ SelectorsOn(2 * k) = {"bool_selector", "swap_selector"}
                 /\ SelectorsOn(2 * k + 1) = {"hash_selector"}
                 /\ CellVal(<<"a", 2 * k>>) = prior
                 /\ CellVal(<<"b", 2 * k>>) = circuit.elements[k + 1]
                 /\ CellVal(<<"c", 2 * k>>) = circuit.indices[k + 1]
                 /\ CellVal(<<"a", 2 * k + 1>>) = sw[1]
                 /\ CellVal(<<"b", 2 * k + 1>>) = sw[2]
                 /\ CellVal(<<"c", 2 * k + 1>>) = FAdd(sw[1], sw[2])
                 /\ k > 0 => <<<<"a", 2 * k>>, <<"c", 2 * k - 1>>>> \in copies
       /\ DOMAIN cells =
             UNION {{<<"a", row>>, <<"b", row>>, <<"c", row>>} :
                       row \in 0 .. 2 * Len(LayerRegions) - 1}
       /\ pc \in {"expose_root", "done", "verified"} =>
             Len(LayerRegions) = NumLayers

C21_Witness ==
    /\ circuit.kind = "MerkleTreeV1" /\ pc = "verified" /\ NumLayers = 2
    /\ SelectorsOn(2) = {"bool_selector", "swap_selector"}
    /\ SelectorsOn(3) = {"hash_selector"}
    /\ circuit.indices = <<1, 0>>
    /\ CellVal(<<"a", 1>>) = circuit.elements[1]
    /\ circuit.elements[1] # circuit.leaf

\* the regions of the log that cover position (col, row)
RegionsAt(col, row) ==
    {m \in DOMAIN regions :
        /\ col \in regions[m].cols
        /\ row \in regions[m].start .. regions[m].start + regions[m].rows - 1}

\* C22: every row with the swap selector on is the first row of a two-row
\* layer region whose second row holds that layer's (left, right) cells, so
\* the swap gate's next-row reference stays inside the region; and no two
\* regions assign the same (column, row).
C22_RegionLocalGates ==
    circuit.kind \in MerkleKinds =>
       /\ \A row \in SwapRows :
             \E m \in DOMAIN regions :
                LET r == regions[m]
                IN  /\ IsLayerRegion(r)
                    /\ r.start = row /\ r.rows = 2
                    /\ \A col \in {"a", "b"} :
                          /\ IsAssigned(<<col, row + 1>>)
                          /\ RegionsAt(col, row) = {m}
                          /\ RegionsAt(col, row + 1) = {m}
                    /\ RegionsAt("c", row) = {m}
                    /\ {CellVal(<<"a", row + 1>>), CellVal(<<"b", row + 1>>)}
                          = {CellVal(<<"a", row>>), CellVal(<<"b", row>>)}
       /\ \A m \in DOMAIN regions : \A n \in 1 .. m - 1 :
             ~RegionsOverlap(regions[m], regions[n])
       /\ Cardinality({writes[k] : k \in DOMAIN writes}) = Len(writes)
       /\ \A c \in DOMAIN cells : Cardinality(RegionsAt(c[1], c[2])) = 1

C22_Witness ==
    /\ circuit.kind = "MerkleTreeV2" /\ pc = "verified" /\ NumLayers = 2
    /\ Cardinality(SwapRows) = 2
    /\ \A row \in SwapRows : IsAssigned(<<"a", row + 2>>)

\* the names of a sequence's entries, as a set
Range(q) == {q[k] : k \in DOMAIN q}

GateNames == [k \in DOMAIN config.gates |-> config.gates[k].name]

\* the gates whose polynomial is multiplied by the selector called name
GatesOf(name) ==
    {k \in DOMAIN config.gates :
        /\ config.gates[k].selector \in DOMAIN config.selectors
        /\ config.selectors[config.gates[k].selector] = name}

\* C23: configure registers one fresh selector per gate and multiplies each
\* gate by its own selector only; MerkleTreeV1Chip::configure yields the
\* gates bool, swap, hash with three pairwise distinct selectors, and
\* MerkleTreeV2Chip::configure the bool and swap gates plus the hash gate of
\* the nested Hash2Chip, again with three pairwise distinct selectors.
C23_GateRegistration ==
    /\ Len(config.gates) = Len(config.selectors)
    /\ \A k \in DOMAIN config.gates :
          config.gates[k].selector \in DOMAIN config.selectors
    /\ \A k, m \in DOMAIN config.gates :
          k # m => config.gates[k].selector # config.gates[m].selector
    /\ \A k, m \in DOMAIN config.selectors :
          k # m => config.selectors[k] # config.selectors[m]
    /\ \A e \in selectors : Cardinality(GatesOf(e[1])) = 1
    /\ circuit.kind \in MerkleKinds =>
          /\ GateNames = <<"bool", "swap", "hash">>
          /\ Range(config.selectors) =
                {"bool_selector", "swap_selector", "hash_selector"}
          /\ \A k \in 1 .. 3 :
                config.selectors[config.gates[k].selector]
                   = <<"bool_selector", "swap_selector", "hash_selector">>[k]

C23_Witness ==
    /\ circuit.kind = "MerkleTreeV2" /\ pc = "verified"
    /\ {e[1] : e \in selectors} = Range(config.selectors)
    /\ Len(config.gates) = 3

\* C24: synthesize and the chip operations it calls leave the columns,
\* gates and selectors of configure as they are; they assign cells of the
\* configured advice columns, enable configured selectors on rows and add
\* copy constraints.
ConfigKept == config' = config

ConfigUsed ==
    /\ config = Configure(circuit.kind)
    /\ {e[1] : e \in selectors} \subseteq Range(config.selectors)
    /\ {c[1] : c \in DOMAIN cells} \subseteq Range(config.advice)
    /\ \A e \in copies :
          e[1][1] \in Range(config.advice) /\ e[2][1] \in Range(config.advice)

IsWordRegion(r) == r.name = "load words"

IsPermuteRegion(r) == r.name = "permute state"

WordRegions == SelectSeq(regions, IsWordRegion)

PermuteRegions == SelectSeq(regions, IsPermuteRegion)

\* C25: in a MerkleTreeV3 layer the next-row cells are passed to
\* PoseidonChip::hash in the order (left, right) and word k is copied into
\* state column k, so with H the (non-commutative) permutation hash the layer
\* digest is H(digest, sibling) for bit 0 and H(sibling, digest) for bit 1;
\* the instantiation has input length <= rate < width.
C25_SpongeLayer ==
    circuit.kind = "MerkleTreeV3" =>
       /\ PoseidonLength <= PoseidonRate /\ PoseidonRate < PoseidonWidth
       /\ Cardinality(PoseidonColumns) = PoseidonWidth
       /\ \A k \in 1 .. Len(WordRegions) :
             LET row == LayerRegions[k].start
                 w == WordRegions[k].start
             IN  /\ Cardinality(WordRegions[k].cols) = PoseidonLength
                 /\ <<<<"state0", w>>, <<"a", row + 1>>>> \in copies
                 /\ <<<<"state1", w>>, <<"b", row + 1>>>> \in copies
                 /\ CellVal(<<"state0", w>>) = CellVal(<<"a", row + 1>>)
                 /\ CellVal(<<"state1", w>>) = CellVal(<<"b", row + 1>>)
       /\ \A k \in 1 .. Len(PermuteRegions) :
             LET row == LayerRegions[k].start
                 d == CellVal(<<"a", row>>)
                 sib == CellVal(<<"b", row>>)
                 bit == CellVal(<<"c", row>>)
                 out == <<"state0", PermuteRegions[k].start + PermuteRows - 1>>
             IN  /\ bit = 0 => CellVal(out) = PoseidonHash(d, sib)
                 /\ bit = 1 => CellVal(out) = PoseidonHash(sib, d)
                 /\ k < Len(LayerRegions) =>
                       <<<<"a", LayerRegions[k + 1].start>>, out>> \in copies
                 /\ (k = NumLayers /\ pc \in {"expose_root", "done", "verified"})
                       => digest = out
       /\ pc = "verified" =>
             /\ CellVal(digest) =
                   FoldPoseidon(circuit.leaf, circuit.elements, circuit.indices)
             /\ (verdict = "satisfied") <=>
                   (instance = <<circuit.leaf, CellVal(digest)>>)

C25_Witness ==
    /\ circuit.kind = "MerkleTreeV3" /\ pc = "verified" /\ NumLayers = 2
    /\ circuit.indices = <<1, 0>>
    /\ circuit.elements[1] # circuit.leaf
    /\ PoseidonHash(circuit.elements[1], circuit.leaf)
          # PoseidonHash(circuit.leaf, circuit.elements[1])
    /\ CellVal(<<"state0", PermuteRegions[1].start + PermuteRows - 1>>)
          = PoseidonHash(circuit.elements[1], circuit.leaf)
    /\ verdict = "satisfied"

\* C26: if a chip operation called by synthesize returns an error,
\* synthesize returns that error and does not report Ok (it never reaches
\* the end of synthesize, and the prover never verifies the assignment).
C26_ErrorPropagation ==
    errors # {} => (pc \notin {"done", "verified"} /\ verdict = "none")

\* the cells a gate reads on the rows where its selector is enabled: one
\* cell per query of the gate, at the row of the selector plus the rotation
QueriedCells ==
    UNION {{<<q[1], e[2] + q[2]>> :
               q \in UNION {config.gates[k].queries : k \in GatesOf(e[1])}} :
           e \in selectors}

\* C27: after synthesize of a circuit with a path of n >= 1 entries, every
\* cell read by a gate on a row where its selector is enabled (a, b, c of
\* the row for hash, c for bool, a, b, c of the row and a, b of the next
\* row for swap) has been assigned during that synthesis.
C27_QueriedAssigned ==
    (pc \in {"done", "verified"} /\ NumLayers >= 1) =>
        LET queried == QueriedCells
        IN  /\ \A c \in queried : IsAssigned(c)
            /\ queried \subseteq {writes[k] : k \in DOMAIN writes}
            /\ \A e \in selectors :
                  /\ e[1] = "swap_selector" =>
                        {<<"a", e[2]>>, <<"b", e[2]>>, <<"c", e[2]>>,
                         <<"a", e[2] + 1>>, <<"b", e[2] + 1>>} \subseteq queried
                  /\ e[1] = "bool_selector" => <<"c", e[2]>> \in queried
                  /\ e[1] = "hash_selector" =>
                        {<<"a", e[2]>>, <<"b", e[2]>>, <<"c", e[2]>>}
                            \subseteq queried

\* a two-layer Merkle synthesis has ended, with swap, bool and hash
\* selectors enabled and every cell they read assigned
C27_Witness ==
    /\ pc = "done"
    /\ circuit.kind \in MerkleKinds
    /\ NumLayers = 2
    /\ {"swap_selector", "bool_selector", "hash_selector"}
           \subseteq {e[1] : e \in selectors}
    /\ Cardinality(QueriedCells) >= 10
    /\ QueriedCells \subseteq DOMAIN cells

\* the rearrangements of a sequence
PermsOf(s) ==
    {[k \in DOMAIN s |-> s[f[k]]] :
        f \in {g \in [DOMAIN s -> DOMAIN s] :
                  \A x, y \in DOMAIN s : g[x] = g[y] => x = y}}

\* C28: with the additive hash (V1's inlined gate, V2 with Hash2Chip) the
\* root computed by synthesis is leaf + s_1 + .. + s_n for every choice of
\* direction bits in {0,1}; flipping any bit or permuting the siblings
\* leaves the root unchanged.
C28_AdditiveRoot ==
    (/\ pc \in {"done", "verified"}
     /\ circuit.kind \in MerkleKinds
     /\ NumLayers >= 1
     /\ BitsBoolean) =>
        /\ CellVal(digest) = FAdd(circuit.leaf, SumSeq(circuit.elements))
        /\ CellVal(digest) =
              ChipRoot(circuit.kind, circuit.leaf, circuit.elements,
                       circuit.indices)
        /\ \A b \in SeqsOfLen({0, 1}, NumLayers) :
              \A s \in PermsOf(circuit.elements) :
                 ChipRoot(circuit.kind, circuit.leaf, s, b) = CellVal(digest)

\* a synthesis of two layers with different siblings and different bits
\* has ended; its root is the sum, which is not the leaf
C28_Witness ==
    /\ pc = "done"
    /\ circuit.kind \in MerkleKinds
    /\ NumLayers = 2
    /\ circuit.elements[1] # circuit.elements[2]
    /\ circuit.indices = <<1, 0>>
    /\ CellVal(digest) = FAdd(circuit.leaf, SumSeq(circuit.elements))
    /\ CellVal(digest) # circuit.leaf
    /\ ChipRoot(circuit.kind, circuit.leaf,
                <<circuit.elements[2], circuit.elements[1]>>, <<0, 1>>)
          = CellVal(digest)

\* the number of layers whose digest has been assigned
LayersDone ==
    IF circuit.kind = "MerkleTreeV1" THEN Len(LayerRegions) ELSE Len(HashRegions)

\* the digest of the first k layers as chip `kind` assigns it
ChipDigest(kind, k) ==
    ChipRoot(kind, circuit.leaf, SubSeq(circuit.elements, 1, k),
             SubSeq(circuit.indices, 1, k))

\* what both chips demand of a witness and a public root: boolean bits and
\* the root that the chip `kind` computes
ChipAccepts(kind) ==
    /\ BitsBoolean
    /\ instance[Len(instance)] = ChipDigest(kind, NumLayers)

\* C29: for the same leaf, the same n >= 1 siblings and the same bits, the
\* V1 chip and the V2 chip produce the same digest at every layer and the
\* same root, and one witness is satisfied exactly when the other is: the
\* run of either chip assigns at each layer the digest of both chips, and
\* (the leaf being bound to itself in V2) is satisfied exactly when the
\* bits are boolean and the public root is that digest.
C29_V1V2Agree ==
    (circuit.kind \in MerkleKinds /\ NumLayers >= 1) =>
        /\ \A k \in 1 .. LayersDone :
              /\ CellVal(LayerOutput(k - 1)) = ChipDigest("MerkleTreeV1", k)
              /\ CellVal(LayerOutput(k - 1)) = ChipDigest("MerkleTreeV2", k)
        /\ pc \in {"done", "verified"} =>
              /\ LayersDone = NumLayers
              /\ CellVal(digest) = ChipDigest("MerkleTreeV1", NumLayers)
              /\ CellVal(digest) = ChipDigest("MerkleTreeV2", NumLayers)
        /\ (/\ pc = "verified"
            /\ circuit.kind = "MerkleTreeV2" => instance[1] = circuit.leaf) =>
              /\ (verdict = "satisfied") <=> ChipAccepts("MerkleTreeV1")
              /\ (verdict = "satisfied") <=> ChipAccepts("MerkleTreeV2")

\* a two-layer V2 run with a swapping first layer has been verified and
\* satisfied, with the digests V1 assigns for that witness
C29_Witness ==
    /\ pc = "verified"
    /\ circuit.kind = "MerkleTreeV2"
    /\ NumLayers = 2
    /\ circuit.indices = <<1, 0>>
    /\ circuit.elements[1] # circuit.leaf
    /\ verdict = "satisfied"
    /\ ChipAccepts("MerkleTreeV1")
    /\ CellVal(LayerOutput(0)) = ChipDigest("MerkleTreeV1", 1)
    /\ CellVal(LayerOutput(1)) = ChipDigest("MerkleTreeV1", 2)

\* the copy constraints between two advice cells
InternalCopies == {e \in copies : e[1] \in DOMAIN cells \/ e[2] \in DOMAIN cells}

\* C30: after synthesize of any circuit, for every copy constraint added
\* between two internal cells (digest into the next layer's input, left
\* and right into the hash gadget's inputs, loaded input into hash input)
\* both cells are assigned and hold the same field value.
C30_CopiesHold ==
    /\ \A e \in copies :
          /\ IsAssigned(e[1]) /\ IsAssigned(e[2])
          /\ e[1] # e[2]
          /\ cells[e[1]] = cells[e[2]]
    /\ pc \in {"done", "verified"} =>
          /\ InternalCopies = copies
          /\ circuit.kind = "MerkleTreeV2" =>
                /\ Cardinality(copies) = 3 * NumLayers
                /\ \A k \in 1 .. NumLayers - 1 :
                      <<LayerInput(k), LayerOutput(k - 1)>> \in copies
                /\ \A k \in DOMAIN HashRegions :
                      LET row == LayerRegions[k].start + 1
                          h == HashRegions[k].start
                      IN  /\ <<<<"a", h>>, <<"a", row>>>> \in copies
                          /\ <<<<"b", h>>, <<"b", row>>>> \in copies
          /\ circuit.kind = "MerkleTreeV1" =>
                Cardinality(copies) = NumLayers - 1
          /\ circuit.kind = "Hash1" =>
                copies = {<<<<"a", digest[2]>>, leaf_cell>>}
          /\ circuit.kind = "Hash2" =>
                copies = {<<<<"a", digest[2]>>, lr[1]>>,
                          <<<<"b", digest[2]>>, lr[2]>>}

\* a two-layer V2 synthesis has ended: six copy constraints, among them
\* one whose two cells hold a value other than zero
C30_Witness ==
    /\ pc = "done"
    /\ circuit.kind = "MerkleTreeV2"
    /\ NumLayers = 2
    /\ Cardinality(copies) = 6
    /\ <<LayerInput(1), LayerOutput(0)>> \in copies
    /\ cells[LayerInput(1)] = cells[LayerOutput(0)]
    /\ cells[LayerInput(1)] # 0

====
